---- MODULE Spec2Model ----
(***************************************************************************)
(* Model of AbstractTestCase (abstract_django_testcase.py): the snapshot   *)
(* assertion assert_equals_resultset, its path resolution, the call-frame  *)
(* lookup, the directory creation helper and the JSON normalisation.       *)
(*                                                                         *)
(* Python strings are TLA+ strings; find/replace/split/dirname/basename    *)
(* are computed character by character as the Python library does.         *)
(***************************************************************************)
EXTENDS Integers, Sequences, FiniteSets, TLC

VARIABLES
    clsfile,      \* inspect.getfile(cls): the file that defines the test class
    fixture_dir,  \* cls._fixture_dir ("" stands for None)
    host_tools,   \* the diff tools shutil.which finds on the host
    files,        \* the regular files of the filesystem: path -> content
    dirs,         \* the directories of the filesystem
    heap,         \* the caller's container objects
    actual,       \* the value the caller holds (a leaf or a reference)
    calls,        \* the number of assertions made so far
    procs,        \* the test runs inside _check_file_can_be_created
    last          \* the last operation: its name, inputs and result

vars == <<clsfile, fixture_dir, host_tools, files, dirs, heap, actual, calls,
          procs, last>>

\* settings.ROOT_DIR
ROOT_DIR == "/p"

None == "None"

(***************************************************************************)
(* Python string primitives                                                *)
(***************************************************************************)
Slice(s, i, j) == SubSeq(s, i + 1, j)      \* s[i:j], 0-based, i <= j <= len

\* the lowest index >= i at which sub occurs in s, -1 when there is none
RECURSIVE FindFrom(_, _, _)
FindFrom(s, sub, i) ==
    IF i + Len(sub) > Len(s) THEN -1
    ELSE IF Slice(s, i, i + Len(sub)) = sub THEN i
    ELSE FindFrom(s, sub, i + 1)

\* str.find(sub): lowest 0-based index, -1 when absent
Find(s, sub) == FindFrom(s, sub, 0)

\* the highest index <= i at which sub occurs in s, -1 when there is none
RECURSIVE RFindFrom(_, _, _)
RFindFrom(s, sub, i) ==
    IF i < 0 THEN -1
    ELSE IF Slice(s, i, i + Len(sub)) = sub THEN i
    ELSE RFindFrom(s, sub, i - 1)

\* str.rfind(sub): highest 0-based index, -1 when absent
RFind(s, sub) == RFindFrom(s, sub, Len(s) - Len(sub))

\* str.replace(old, new) for a non-empty old: leftmost, non-overlapping
RECURSIVE Replace(_, _, _)
Replace(s, old, new) ==
    LET pos == Find(s, old)
    IN  IF pos < 0 THEN s
        ELSE Slice(s, 0, pos) \o new
             \o Replace(Slice(s, pos + Len(old), Len(s)), old, new)

\* str.split(sep): always at least one element
RECURSIVE Split(_, _)
Split(s, sep) ==
    LET pos == Find(s, sep)
    IN  IF pos < 0 THEN <<s>>
        ELSE <<Slice(s, 0, pos)>> \o Split(Slice(s, pos + Len(sep), Len(s)), sep)

\* sep.join(parts)
RECURSIVE Join(_, _)
Join(parts, sep) ==
    IF parts = <<>> THEN ""
    ELSE IF Len(parts) = 1 THEN parts[1]
    ELSE parts[1] \o sep \o Join(Tail(parts), sep)

\* str.rstrip("/")
RECURSIVE RStripSlash(_)
RStripSlash(s) ==
    IF Len(s) > 0 /\ Slice(s, Len(s) - 1, Len(s)) = "/"
    THEN RStripSlash(Slice(s, 0, Len(s) - 1))
    ELSE s

\* posixpath.dirname
Dirname(p) ==
    LET i    == RFind(p, "/") + 1
        head == Slice(p, 0, i)
    IN  IF head # "" /\ RStripSlash(head) # "" THEN RStripSlash(head) ELSE head

\* posixpath.basename
Basename(p) == Slice(p, RFind(p, "/") + 1, Len(p))

(***************************************************************************)
(* Path resolution                                                         *)
(***************************************************************************)
\* get_test_fixtures_dir: [exc, ret, cache]; the result is cached on the class
get_test_fixtures_dir(cache, filename) ==
    IF cache # ""
    THEN [exc |-> None, ret |-> cache, cache |-> cache]
    ELSE LET pos == Find(filename, "/tests")
         IN  IF ~(pos > 0)
             THEN [exc |-> "ValueError", ret |-> "", cache |-> cache]
             ELSE LET d == Slice(filename, 0, pos) \o "/tests/fixtures"
                  IN  [exc |-> None, ret |-> d, cache |-> d]

\* get_resultsets_dir
get_resultsets_dir(cache, filename) ==
    LET f == get_test_fixtures_dir(cache, filename)
    IN  [f EXCEPT !.ret = IF f.exc = None THEN f.ret \o "/resultsets" ELSE ""]

\* the loop of _get_test_subdir: pop from the front until "tests" was popped
RECURSIVE PopUntilTests(_)
PopUntilTests(dir_names) ==
    IF dir_names = <<>> THEN <<>>
    ELSE IF Head(dir_names) = "tests" THEN Tail(dir_names)
    ELSE PopUntilTests(Tail(dir_names))

\* _get_test_subdir
_get_test_subdir(filename) ==
    LET dir_names == Split(Dirname(Replace(filename, ROOT_DIR, "")), "/")
    IN  Join(PopUntilTests(dir_names), "/")

\* _get_calling_method_name: frame[3] is the function name
_get_calling_method_name(frame) == frame.function

\* the frames are searched from the outermost one
_get_calframe_outermost(stack, calling_filename, cls_filename) ==
    LET test_filename == IF calling_filename = "" THEN cls_filename
                         ELSE calling_filename
        hits == { i \in 1..Len(stack) : Find(stack[i].filename, test_filename) >= 0 }
    IN  IF hits = {} THEN 0 ELSE CHOOSE i \in hits : \A j \in hits : j <= i

\* _get_calframe over the frames of inspect.getouterframes, innermost first:
\* the index of the first frame whose file name contains test_filename
\* (calling_filename when given, else the class's file), 0 for ValueError
_get_calframe(stack, calling_filename, cls_filename) ==
    LET test_filename == IF calling_filename = "" THEN cls_filename
                         ELSE calling_filename
        hits == { i \in 1..Len(stack) : Find(stack[i].filename, test_filename) >= 0 }
    IN  IF hits = {} THEN 0 ELSE CHOOSE i \in hits : \A j \in hits : i <= j

(***************************************************************************)
(* Values.  A leaf is a record tagged with its Python type; a container is *)
(* an object on the heap (a sequence of objects, addressed from 1) and is  *)
(* referred to by [t |-> "ref", a |-> address].  A tree is the same value  *)
(* with the containers inlined.  Byte strings hold UTF-8 text.             *)
(***************************************************************************)
Pad2(n) == IF n < 10 THEN "0" \o ToString(n) ELSE ToString(n)
Pad4(n) == IF n < 10 THEN "000" \o ToString(n)
           ELSE IF n < 100 THEN "00" \o ToString(n)
           ELSE IF n < 1000 THEN "0" \o ToString(n) ELSE ToString(n)
Pad6(n) == IF n < 10 THEN "00000" \o ToString(n)
           ELSE IF n < 100 THEN "0000" \o ToString(n)
           ELSE IF n < 1000 THEN "000" \o ToString(n)
           ELSE IF n < 10000 THEN "00" \o ToString(n)
           ELSE IF n < 100000 THEN "0" \o ToString(n) ELSE ToString(n)

\* date.strftime("%Y-%m-%d")
StrfDate(d) == Pad4(d.y) \o "-" \o Pad2(d.mo) \o "-" \o Pad2(d.d)

\* the date format used for a date-time as well
StrfDateTime_date_only(d) == StrfDate(d)

\* datetime.strftime("%Y-%m-%d %H:%M:%S.%f")
StrfDateTime(d) ==
    StrfDate(d) \o " " \o Pad2(d.h) \o ":" \o Pad2(d.mi) \o ":" \o Pad2(d.s)
    \o "." \o Pad6(d.us)

\* float(Decimal(v)), as the repr of the float, for the decimals of the model
FloatOfDecimal(v) ==
    CASE v = "1.50" -> "1.5"
      [] v = "2"    -> "2.0"
      [] OTHER      -> v

IsRef(d) == d.t = "ref"
IsContainerKind(k) == k \in {"dict", "list", "tuple"}

Str(s) == [t |-> "str", v |-> s]

\* isinstance checks of _to_json_dumpable; a datetime is also a date
IsDecimal(d)  == d.t = "Decimal"
IsDateTime(d) == d.t = "datetime"
IsDate(d)     == d.t \in {"date", "datetime"}
IsBytes(d)    == d.t = "bytes"

\* the result of the recursive call is dropped instead of stored
SetItem_lost(h, a, i, val) == h

\* data[k] = ... / data[idx] = ...: store into item i of the container at a
SetItem(h, a, i, val) == [h EXCEPT ![a].items[i] = val]

\* list(data) for a tuple: a new list object with the same items
ListOfTuple(h, data) ==
    Append(h, [k |-> "list", keys |-> <<>>, items |-> h[data.a].items])

\* _to_json_dumpable(data) on heap h: [h |-> the heap afterwards, r |-> the
\* returned value].  Dicts and lists are rewritten in place, item by item;
\* a tuple is copied to a new list which is then rewritten.
RECURSIVE _to_json_dumpable(_, _)
RECURSIVE NormItems(_, _, _)
NormItems(h, a, i) ==
    IF i > Len(h[a].items) THEN h
    ELSE LET res == _to_json_dumpable(h, h[a].items[i])
         IN  NormItems(SetItem(res.h, a, i, res.r), a, i + 1)

\* data = list(data), without the recursive call
NormTuple_not_recursive(h, data) ==
    LET h2 == ListOfTuple(h, data)
    IN  [h |-> h2, r |-> [t |-> "ref", a |-> Len(h2)]]

\* lines 401-402: data = cls._to_json_dumpable(list(data))
NormTuple(h, data) ==
    LET h2 == ListOfTuple(h, data)
    IN  _to_json_dumpable(h2, [t |-> "ref", a |-> Len(h2)])

_to_json_dumpable(h, data) ==
    IF IsDecimal(data)
    THEN [h |-> h, r |-> [t |-> "float", v |-> FloatOfDecimal(data.v)]]
    ELSE IF IsDateTime(data) THEN [h |-> h, r |-> Str(StrfDateTime(data))]
    ELSE IF IsDate(data) THEN [h |-> h, r |-> Str(StrfDate(data))]
    ELSE IF IsBytes(data) THEN [h |-> h, r |-> Str(data.v)]
    ELSE IF IsRef(data) /\ h[data.a].k = "dict"
    THEN [h |-> NormItems(h, data.a, 1), r |-> data]
    ELSE IF IsRef(data) /\ h[data.a].k = "list"
    THEN [h |-> NormItems(h, data.a, 1), r |-> data]
    ELSE IF IsRef(data) /\ h[data.a].k = "tuple" THEN NormTuple(h, data)
    ELSE [h |-> h, r |-> data]

\* the tree a value denotes on heap h
RECURSIVE Val(_, _)
Val(h, d) ==
    IF IsRef(d)
    THEN [t |-> h[d.a].k, keys |-> h[d.a].keys,
          items |-> [i \in 1..Len(h[d.a].items) |-> Val(h, h[d.a].items[i])]]
    ELSE d

\* build tree t on heap h, children first: [h, r]
RECURSIVE Alloc(_, _)
RECURSIVE AllocItems(_, _, _, _)
AllocItems(h, items, i, acc) ==
    IF i > Len(items) THEN [h |-> h, r |-> acc]
    ELSE LET res == Alloc(h, items[i])
         IN  AllocItems(res.h, items, i + 1, Append(acc, res.r))

Alloc(h, t) ==
    IF IsContainerKind(t.t)
    THEN LET kids == AllocItems(h, t.items, 1, <<>>)
             h2   == Append(kids.h, [k |-> t.t, keys |-> t.keys, items |-> kids.r])
         IN  [h |-> h2, r |-> [t |-> "ref", a |-> Len(h2)]]
    ELSE [h |-> h, r |-> t]

(***************************************************************************)
(* json.dumps(obj, indent=4, separators=(",", ": "), default=str,          *)
(* ensure_ascii=False)                                                     *)
(***************************************************************************)
RECURSIVE Indent(_)
Indent(level) == IF level = 0 THEN "" ELSE "    " \o Indent(level - 1)

Quote(s) == "\"" \o s \o "\""

RECURSIVE Dumps(_, _)
RECURSIVE DumpItems(_, _, _)
DumpItems(t, i, level) ==
    LET item == (IF t.t = "dict" THEN Quote(t.keys[i]) \o ": " ELSE "")
                \o Dumps(t.items[i], level)
    IN  IF i = Len(t.items) THEN item
        ELSE item \o "," \o "\n" \o Indent(level) \o DumpItems(t, i + 1, level)

Dumps(t, level) ==
    CASE t.t = "dict" ->
            IF t.items = <<>> THEN "{}"
            ELSE "{" \o "\n" \o Indent(level + 1) \o DumpItems(t, 1, level + 1)
                 \o "\n" \o Indent(level) \o "}"
      [] t.t \in {"list", "tuple"} ->
            IF t.items = <<>> THEN "[]"
            ELSE "[" \o "\n" \o Indent(level + 1) \o DumpItems(t, 1, level + 1)
                 \o "\n" \o Indent(level) \o "]"
      [] t.t = "str"      -> Quote(t.v)
      [] t.t = "int"      -> t.v
      [] t.t = "float"    -> t.v
      [] t.t = "NoneType" -> "null"
      \* default=str for what the encoder does not know
      [] t.t = "Decimal"  -> Quote(t.v)
      [] t.t = "datetime" -> Quote(StrfDate(t) \o " " \o Pad2(t.h) \o ":"
                                   \o Pad2(t.mi) \o ":" \o Pad2(t.s)
                                   \o "." \o Pad6(t.us))
      [] t.t = "date"     -> Quote(StrfDate(t))
      [] t.t = "bytes"    -> Quote("b'" \o t.v \o "'")

\* lines 204-214: the serialized actual text of the value d on heap h
ActualJson(h, d) == Dumps(Val(h, d), 0) \o "\n"

(***************************************************************************)
(* The filesystem.  The kernel resolves a path with its empty segments     *)
(* dropped, so "a//b" names the same file as "a/b"; files and directories  *)
(* are kept under their resolved paths, and the operations below take      *)
(* resolved paths.                                                         *)
(***************************************************************************)
IsSegment(x) == x # ""

Segments(p) == SelectSeq(Split(p, "/"), IsSegment)

Resolve(p) == "/" \o Join(Segments(p), "/")

\* the prefixes of a sequence of segments, as paths
RECURSIVE PrefixPaths(_, _)
PrefixPaths(segs, acc) ==
    IF segs = <<>> THEN {}
    ELSE LET q == acc \o "/" \o Head(segs)
         IN  {q} \cup PrefixPaths(Tail(segs), q)

\* the directory p and every directory above it
AncestorsOrSelf(p) == {"/"} \cup PrefixPaths(Segments(p), "")

\* a filesystem without regular files
NoFiles == [q \in {} |-> ""]

\* os.path.exists
Exists(f, d, p) == p \in (DOMAIN f) \cup d

\* open(p, "w").write(text)
WriteFile(f, p, text) ==
    [q \in (DOMAIN f) \cup {p} |-> IF q = p THEN text ELSE f[q]]

\* open(p, "a+").write(text): the file is created when it is missing
AppendFile(f, p, text) ==
    WriteFile(f, p, (IF p \in DOMAIN f THEN f[p] ELSE "") \o text)

\* os.makedirs(name): every missing directory down to name is created;
\* EEXIST when name itself exists already
makedirs(d, name) ==
    IF name \in d
    THEN [dirs |-> d, errno |-> "EEXIST"]
    ELSE [dirs |-> d \cup AncestorsOrSelf(name), errno |-> None]

\* every OSError is raised again
Reraised_always(errno) == errno

\* the except clause of _check_file_can_be_created: EEXIST is swallowed
Reraised(errno) == IF errno = "EEXIST" THEN None ELSE errno

\* _check_file_can_be_created: [dirs, exc]
_check_file_can_be_created(f, d, filename) ==
    IF ~Exists(f, d, filename)
    THEN LET m == makedirs(d, Dirname(filename))
         IN  [dirs |-> m.dirs, exc |-> Reraised(m.errno)]
    ELSE [dirs |-> d, exc |-> None]

(***************************************************************************)
(* assert_equals_resultset                                                 *)
(***************************************************************************)
\* the file of AbstractTestCase itself
LIB == "/site-packages/abstract_django_testcase.py"

\* the frames inspect.getouterframes sees inside _get_calframe when the
\* assertion was called with the frames `callers` below it (innermost first)
OuterFrames(callers) ==
    << [filename |-> LIB, function |-> "_get_calframe"],
       [filename |-> LIB, function |-> "assert_equals_resultset"] >> \o callers

\* line 188
FilenameNoext(filename) == Replace(Basename(filename), ".py", "")

\* lines 189-191
ResultsetFilename(resultsets_dir, sub_dir, filename_noext, method_name) ==
    resultsets_dir \o "/" \o sub_dir \o "/" \o filename_noext \o "/"
    \o method_name \o ".json"

\* lines 222-225
TmpActualFilename(filename_noext, method_name) ==
    ROOT_DIR \o "/.donotcommit_tmp/" \o filename_noext \o "-" \o method_name
    \o "_ACTUAL.json"

DiffCmdFile == ROOT_DIR \o "/.donotcommit_tmp_diff_cmd"

\* `if` for every tool instead of `elif`: a line for each tool found
DiffCmdLine_every_tool(tools, resultset_filename, tmp_actual_filename) ==
    (IF "charm" \in tools
     THEN "charm diff " \o resultset_filename \o " " \o tmp_actual_filename \o "\n"
     ELSE "")
    \o (IF "pycharm-community" \in tools
        THEN "pycharm-community diff " \o resultset_filename \o " "
             \o tmp_actual_filename \o "\n"
        ELSE "")
    \o (IF "meld" \in tools
        THEN "meld " \o tmp_actual_filename \o " " \o resultset_filename \o "\n"
        ELSE "")
    \o (IF "code" \in tools
        THEN "code -d " \o tmp_actual_filename \o " " \o resultset_filename \o "\n"
        ELSE "")

\* lines 232-241: the line written to the diff-commands log, "" for none
DiffCmdLine(tools, resultset_filename, tmp_actual_filename) ==
    IF "charm" \in tools
    THEN "charm diff " \o resultset_filename \o " " \o tmp_actual_filename \o "\n"
    ELSE IF "pycharm-community" \in tools
    THEN "pycharm-community diff " \o resultset_filename \o " "
         \o tmp_actual_filename \o "\n"
    ELSE IF "meld" \in tools
    THEN "meld " \o tmp_actual_filename \o " " \o resultset_filename \o "\n"
    ELSE IF "code" \in tools
    THEN "code -d " \o tmp_actual_filename \o " " \o resultset_filename \o "\n"
    ELSE ""

\* json.dump({}, f)
EmptySnapshot == "{}"

\* a missing snapshot is taken to match anything
ExpectedEquals_none_passes(expected, actual_json) ==
    expected = <<>> \/ expected = <<actual_json>>

\* the text is compared before the trailing newline is appended to it
ExpectedEquals_no_newline(expected, actual_json) ==
    expected = <<Slice(actual_json, 0, Len(actual_json) - 1)>>

\* line 217: expected is <<>> for None and <<text>> for the text read
ExpectedEquals(expected, actual_json) == expected = <<actual_json>>

\* what a call leaves in `last`
Outcome(exc, f, d, h, a, callers, calling_filename, fields) ==
    [op |-> "assert_equals_resultset", exc |-> exc, callers |-> callers,
     calling_filename |-> calling_filename,
     files_before |-> f, dirs_before |-> d, heap_before |-> h,
     arg |-> a, info |-> fields]

\* lines 181-191 of assert_equals_resultset: the calling frame, the method
\* name and the snapshot path; cache is cls._fixture_dir afterwards
ResolvePath(cls_filename, cache, callers, calling_filename) ==
    LET stack == OuterFrames(callers)
        fi    == _get_calframe(stack, calling_filename, cls_filename)
        none  == [exc |-> "ValueError", cache |-> cache, frame |-> fi,
                  method_name |-> "", sub_dir |-> "", filename_noext |-> "",
                  resultset_filename |-> ""]
    IN
    IF fi = 0
    THEN none       \* line 332: ValueError, no calling frame
    ELSE
    LET method_name    == _get_calling_method_name(stack[fi])
        sub_dir        == _get_test_subdir(cls_filename)
        filename       == IF calling_filename # "" THEN calling_filename
                          ELSE cls_filename
        filename_noext == FilenameNoext(filename)
        rd             == get_resultsets_dir(cache, cls_filename)
    IN
    IF rd.exc # None
    THEN none       \* line 36: ValueError out of get_test_fixtures_dir
    ELSE [exc |-> None, cache |-> rd.cache, frame |-> fi,
          method_name |-> method_name, sub_dir |-> sub_dir,
          filename_noext |-> filename_noext,
          resultset_filename |->
              ResultsetFilename(rd.ret, sub_dir, filename_noext, method_name)]

\* the state a failed path resolution leaves: ValueError, nothing was done
Raised(cache, f, d, h, a, callers, calling_filename) ==
    [fixture_dir |-> cache, files |-> f, dirs |-> d, heap |-> h,
     last |-> Outcome("ValueError", f, d, h, a, callers, calling_filename, <<>>)]

\* the whole of assert_equals_resultset(actual, calling_filename=...) of a
\* class of file cls_filename, called with the frames `callers` below it: the
\* argument is the value a on heap h, the class caches cache, the filesystem
\* is (f, d) and the host has the diff tools `tools`.  The result is the
\* state afterwards.
AssertEqualsResultset(cls_filename, cache, tools, f, d, h, a, callers, calling_filename) ==
    LET rp == ResolvePath(cls_filename, cache, callers, calling_filename)
    IN
    IF rp.exc # None
    THEN Raised(cache, f, d, h, a, callers, calling_filename)
    ELSE
    LET method_name    == rp.method_name
        filename_noext == rp.filename_noext
        resultset_filename == rp.resultset_filename
        rpath    == Resolve(resultset_filename)
        chk1     == _check_file_can_be_created(f, d, rpath)
        existed  == Exists(f, chk1.dirs, rpath)
        expected == IF existed THEN <<f[rpath]>> ELSE <<>>
        files1   == IF existed THEN f ELSE WriteFile(f, rpath, EmptySnapshot)
        norm        == _to_json_dumpable(h, a)
        actual_json == ActualJson(norm.h, norm.r)
        tmp_actual_filename == TmpActualFilename(filename_noext, method_name)
        tpath    == Resolve(tmp_actual_filename)
        chk2     == _check_file_can_be_created(files1, chk1.dirs, tpath)
        files2   == WriteFile(files1, tpath, actual_json)
        files3   == AppendFile(files2, DiffCmdFile,
                               DiffCmdLine(tools, resultset_filename,
                                           tmp_actual_filename))
        fields   == [method_name |-> method_name, sub_dir |-> rp.sub_dir,
                     filename_noext |-> filename_noext,
                     resultset_filename |-> resultset_filename,
                     tmp_actual_filename |-> tmp_actual_filename,
                     existed |-> existed, expected |-> expected,
                     actual_json |-> actual_json, ret |-> norm.r]
    IN
    IF ExpectedEquals(expected, actual_json)
    THEN [fixture_dir |-> rp.cache, files |-> files1, dirs |-> chk1.dirs,
          heap |-> norm.h,
          last |-> Outcome(None, f, d, h, a, callers, calling_filename, fields)]
    ELSE \* lines 218-247: the diagnostics, then the AssertionError again
         [fixture_dir |-> rp.cache, files |-> files3, dirs |-> chk2.dirs,
          heap |-> norm.h,
          last |-> Outcome("AssertionError", f, d, h, a, callers,
                           calling_filename, fields)]

(***************************************************************************)
(* Input values: every tree of at most MaxNodes nodes over the leaves      *)
(***************************************************************************)
MaxNodes == 4

Leaves ==
    { [t |-> "Decimal", v |-> "1.50"],
      [t |-> "datetime", y |-> 2020, mo |-> 1, d |-> 2,
                         h |-> 3, mi |-> 4, s |-> 5, us |-> 6],
      [t |-> "date", y |-> 2020, mo |-> 1, d |-> 2],
      [t |-> "bytes", v |-> "ab"],
      [t |-> "str", v |-> "ab"],
      [t |-> "int", v |-> "1"] }

Kinds == {"dict", "list", "tuple"}

\* the keys of a dict of n items, in insertion order
RECURSIVE DictKeys(_)
DictKeys(n) == IF n = 0 THEN <<>> ELSE Append(DictKeys(n - 1), "k" \o ToString(n))

Container(k, items) ==
    [t |-> k, keys |-> IF k = "dict" THEN DictKeys(Len(items)) ELSE <<>>,
     items |-> items]

\* the values of one node
TreesOfSize1 == Leaves \cup { Container(k, <<>>) : k \in Kinds }

\* T[k] is the set of values of k nodes and F[m + 1] the set of sequences of
\* values of m nodes in all; one more size is added to both (to F only when
\* a larger size is still to come)
GrowStep(n, T, F) ==
    LET k == Len(T) + 1
        T2 == Append(T, { Container(kind, f) : kind \in Kinds, f \in F[k] })
    IN  [T |-> T2,
         F |-> IF k >= n THEN F
               ELSE Append(F, UNION { { <<t>> \o f : t \in T2[j], f \in F[k - j + 1] }
                                      : j \in 1..k })]

\* the tables [T, F] of the values of at most n nodes
RECURSIVE GrowTrees(_, _, _)
GrowTrees(n, T, F) ==
    IF Len(T) >= n THEN [T |-> T, F |-> F]
    ELSE CHOOSE r \in { GrowTrees(n, TF.T, TF.F) : TF \in { GrowStep(n, T, F) } } : TRUE

Trees(n) ==
    GrowTrees(n, <<TreesOfSize1>>, << { <<>> }, { <<t>> : t \in TreesOfSize1 } >>)

(***************************************************************************)
(* SpecNorm: _to_json_dumpable applied, once and again, to every input     *)
(***************************************************************************)
MaxApply == 2

\* the caller holds value t
NormInput(t) ==
    \E al \in { Alloc(<<>>, t) } :
       /\ heap = al.h
       /\ actual = al.r
       /\ last = [op |-> "input", n |-> 0, orig |-> t, before |-> t, arg |-> al.r]

\* the caller holds any value of at most MaxNodes nodes: a value of one
\* node, or a container whose first item has j nodes and whose other items
\* have m nodes in all
InitNorm ==
    /\ clsfile = ""
    /\ fixture_dir = ""
    /\ host_tools = {}
    /\ files = NoFiles
    /\ dirs = {}
    /\ calls = 0
    /\ procs = <<>>
    /\ \/ \E t \in TreesOfSize1 : NormInput(t)
       \/ \E tab \in { Trees(MaxNodes - 1) } :
          \E kind \in Kinds, j \in 1..(MaxNodes - 1) :
          \E m \in 0..(MaxNodes - 1 - j) :
          \E t \in tab.T[j], f \in tab.F[m + 1] :
             NormInput(Container(kind, <<t>> \o f))

ToJsonDumpable ==
    /\ last.n < MaxApply
    /\ LET res == _to_json_dumpable(heap, actual)
       IN  /\ heap' = res.h
           /\ actual' = res.r
           /\ last' = [op |-> "_to_json_dumpable", n |-> last.n + 1,
                       orig |-> last.orig, before |-> Val(heap, actual),
                       arg |-> actual]
    /\ UNCHANGED <<clsfile, fixture_dir, host_tools, files, dirs, calls, procs>>

NextNorm == ToJsonDumpable

SpecNorm == InitNorm /\ [][NextNorm]_vars

(***************************************************************************)
(* Spec: a test class in clsfile makes assertions against the filesystem   *)
(***************************************************************************)
MaxCalls == 1

Tools == {"charm", "pycharm-community", "meld", "code"}

\* the hosts: none of the tools, and each tool as the first one found
HostToolSets ==
    { {}, {"charm", "code"}, {"pycharm-community", "meld"}, {"meld", "code"},
      {"code"}, Tools }

\* the files that may define the test class
ClsFiles ==
    { "/p/app/tests/unit/test_foo.py",      \* below a sub-directory of tests
      "/p/app/tests/test_foo.py",           \* directly in tests
      "/p/app/test_foo.py",                 \* no tests directory at all
      "/p/app/testsuite/test_foo.py" }      \* a directory named like tests

\* a file with helper functions and a file with an inherited base test class
HELPER == "/p/app/tests/helpers.py"
BASE   == "/p/common/tests/base_case.py"

\* the unittest runner's frame, below every test method
RUNNER == [filename |-> "/usr/lib/python3/unittest/case.py", function |-> "run"]

Frame(f, fn) == [filename |-> f, function |-> fn]

\* the ways the assertion is reached, as [callers, calling_filename]
CallShapes(f) ==
    { \* a test method of the class's file calls the assertion
      [callers |-> <<Frame(f, "test_a"), RUNNER>>, calling_filename |-> ""],
      [callers |-> <<Frame(f, "test_b"), RUNNER>>, calling_filename |-> ""],
      \* a test method calls a helper of another file that calls the assertion
      [callers |-> <<Frame(HELPER, "check_result"), Frame(f, "test_a"), RUNNER>>,
       calling_filename |-> ""],
      \* a test method inherited from a base class in another file
      [callers |-> <<Frame(BASE, "test_a"), RUNNER>>, calling_filename |-> BASE],
      [callers |-> <<Frame(BASE, "test_a"), RUNNER>>, calling_filename |-> ""] }

Leaf(t, v) == [t |-> t, v |-> v]
ADecimal  == [t |-> "Decimal", v |-> "1.50"]
ADateTime == [t |-> "datetime", y |-> 2020, mo |-> 1, d |-> 2,
                                h |-> 3, mi |-> 4, s |-> 5, us |-> 6]
ADate     == [t |-> "date", y |-> 2020, mo |-> 1, d |-> 2]
ABytes    == [t |-> "bytes", v |-> "ab"]
Dict(keys, items) == [t |-> "dict", keys |-> keys, items |-> items]
List(items)  == [t |-> "list", keys |-> <<>>, items |-> items]
Tuple(items) == [t |-> "tuple", keys |-> <<>>, items |-> items]

\* the values the tests pass as `actual`
ActualInputs ==
    { Dict(<<>>, <<>>),
      Dict(<<"a">>, <<Leaf("int", "1")>>),
      Dict(<<"a", "b">>, <<ADecimal, List(<<ADate, Tuple(<<ABytes>>)>>)>>),
      Tuple(<<ADecimal, Dict(<<"a">>, <<ADateTime>>)>>),
      List(<<Tuple(<<Dict(<<"a">>, <<ADecimal>>)>>)>>),
      Leaf("str", "ab") }

\* the text of a checked-in snapshot: what an earlier run created, or the
\* serialized form of a value
SnapshotTexts ==
    { EmptySnapshot } \cup
    { LET al == Alloc(<<>>, t)
          n  == _to_json_dumpable(al.h, al.r)
      IN  ActualJson(n.h, n.r)
      : t \in { Dict(<<"a">>, <<Leaf("int", "1")>>),
                Dict(<<"a", "b">>, <<ADecimal, List(<<ADate, Tuple(<<ABytes>>)>>)>>) } }

\* the snapshot path of test_a called directly from the class's file
SnapshotPath(f) ==
    ResultsetFilename(get_resultsets_dir("", f).ret, _get_test_subdir(f),
                      FilenameNoext(f), "test_a")

Init ==
    /\ fixture_dir = ""
    /\ host_tools \in HostToolSets
    /\ \E f \in ClsFiles :
          /\ clsfile = f
          /\ \/ /\ files = NoFiles
                /\ dirs = AncestorsOrSelf(Dirname(f)) \cup AncestorsOrSelf(ROOT_DIR)
             \/ /\ get_resultsets_dir("", f).exc = None
                /\ \E text \in SnapshotTexts :
                      files = WriteFile(NoFiles, Resolve(SnapshotPath(f)), text)
                /\ dirs = AncestorsOrSelf(Dirname(f)) \cup AncestorsOrSelf(ROOT_DIR)
                          \cup AncestorsOrSelf(Dirname(SnapshotPath(f)))
    /\ heap = <<>>
    /\ actual = Leaf("NoneType", "None")
    /\ calls = 0
    /\ procs = <<>>
    /\ last = [op |-> "none", exc |-> None]

\* a test builds a value and calls self.assert_equals_resultset(value)
Call ==
    /\ calls < MaxCalls
    /\ calls' = calls + 1
    /\ \E t \in ActualInputs :
       \E cf \in {clsfile}, fd \in {fixture_dir}, ht \in {host_tools},
          f \in {files}, d \in {dirs} :
       \E c \in CallShapes(cf) :
       \E al \in {Alloc(<<>>, t)} :
       \E after \in {AssertEqualsResultset(cf, fd, ht, f, d, al.h, al.r,
                                            c.callers, c.calling_filename)} :
          /\ actual' = al.r
          /\ fixture_dir' = after.fixture_dir
          /\ files' = after.files
          /\ dirs' = after.dirs
          /\ heap' = after.heap
          /\ last' = after.last
    /\ UNCHANGED <<clsfile, host_tools, procs>>

Next == Call

Spec == Init /\ [][Next]_vars

(***************************************************************************)
(* Properties of the assertion                                             *)
(***************************************************************************)
IsAssert == last.op = "assert_equals_resultset"

\* the call resolved its snapshot path (it did not end in a ValueError)
Resolved == IsAssert /\ last.exc # "ValueError"

\* the resolved path of the expected snapshot of the last call
ExpectedPath == Resolve(last.info.resultset_filename)

ExistedBefore == ExpectedPath \in DOMAIN last.files_before

ContentOf(f, p) == IF p \in DOMAIN f THEN f[p] ELSE ""

RECURSIVE CountNewlines(_)
CountNewlines(text) ==
    IF text = "" THEN 0
    ELSE (IF Head(text) = "\n" THEN 1 ELSE 0) + CountNewlines(Tail(text))

RawTypes == {"Decimal", "datetime", "date", "bytes"}

\* C1: when the expected snapshot file does not exist, the call creates it
\* with the content {} and fails with an AssertionError, whatever the actual
\* value is.
C1_MissingSnapshotCreatedAndFails ==
    (Resolved /\ ~ExistedBefore) =>
        /\ last.exc = "AssertionError"
        /\ ExpectedPath \in DOMAIN files
        /\ files[ExpectedPath] = "{}"

\* the snapshot was missing and the actual value is the empty mapping
C1_Witness ==
    /\ Resolved /\ ~ExistedBefore
    /\ Val(last.heap_before, last.arg) = Dict(<<>>, <<>>)
    /\ last.exc = "AssertionError"

\* C2: when the expected file exists and its text equals the serialized
\* normalized actual value, the call returns without failure and writes
\* nothing: no file is created, changed or appended to (the expected file,
\* the diagnostic file and the diff-commands log included) and no directory
\* is created.
C2_MatchPassesWithoutWrites ==
    (Resolved /\ ExistedBefore
        /\ last.files_before[ExpectedPath] = ActualJson(heap, last.info.ret)) =>
        /\ last.exc = None
        /\ files = last.files_before
        /\ dirs = last.dirs_before

\* the actual value {"a": 1} met the snapshot of four-space indented text
C2_Witness ==
    /\ Resolved /\ ExistedBefore
    /\ Val(last.heap_before, last.arg) = Dict(<<"a">>, <<Leaf("int", "1")>>)
    /\ last.files_before[ExpectedPath] = "{\n    \"a\": 1\n}\n"
    /\ last.exc = None

\* the text appended to the diff-commands log by the last call
AppendedLog ==
    LET old == ContentOf(last.files_before, DiffCmdFile)
        new == ContentOf(files, DiffCmdFile)
    IN  IF Len(new) >= Len(old) /\ Slice(new, 0, Len(old)) = old
        THEN <<Slice(new, Len(old), Len(new))>>
        ELSE <<>>      \* the log was not appended to but rewritten

IsOneLine(text) ==
    /\ Len(text) > 1
    /\ CountNewlines(text) = 1
    /\ Slice(text, Len(text) - 1, Len(text)) = "\n"

\* C3: when the serialized actual value differs from the expected file's
\* content (or there was no expected file), the call fails with an
\* AssertionError, the file
\* <root>/.donotcommit_tmp/<caller-basename>-<method>_ACTUAL.json holds
\* exactly the serialized actual text, and the diff-commands log has grown
\* by one line if a known diff tool is on the host and by nothing otherwise.
C3_MismatchLeavesDiagnostics ==
    (Resolved /\ (ExistedBefore =>
                    last.files_before[ExpectedPath] # ActualJson(heap, last.info.ret))) =>
        LET tmp == ROOT_DIR \o "/.donotcommit_tmp/" \o last.info.filename_noext
                   \o "-" \o last.info.method_name \o "_ACTUAL.json"
        IN  /\ last.exc = "AssertionError"
            /\ tmp \in DOMAIN files
            /\ files[tmp] = ActualJson(heap, last.info.ret)
            /\ AppendedLog # <<>>
            /\ IF host_tools \cap Tools # {}
               THEN IsOneLine(AppendedLog[1])
               ELSE AppendedLog[1] = ""

\* an existing snapshot differed on a host with several diff tools
C3_Witness ==
    /\ Resolved /\ ExistedBefore
    /\ last.exc = "AssertionError"
    /\ host_tools = Tools
    /\ last.files_before[ExpectedPath] # EmptySnapshot

\* the addresses of the dicts and lists reachable from v through dicts and
\* lists on heap h
RECURSIVE ReachDL(_, _)
ReachDL(h, v) ==
    IF IsRef(v) /\ h[v.a].k \in {"dict", "list"}
    THEN {v.a} \cup UNION { ReachDL(h, h[v.a].items[i]) : i \in 1..Len(h[v.a].items) }
    ELSE {}

\* the container at address a holds normalized values only
HoldsNormalized(h, a) ==
    \A i \in 1..Len(h[a].items) :
        LET item == h[a].items[i]
        IN  IF IsRef(item) THEN h[item.a].k # "tuple" ELSE item.t \notin RawTypes

\* every dict and list reachable from the caller's value holds normalized
\* values
RewrittenInPlace == \A a \in ReachDL(heap, actual) : HoldsNormalized(heap, a)

\* for a dict or list argument the normalized value is the argument itself
SameObjectReturned ==
    (IsRef(last.arg) /\ last.heap_before[last.arg.a].k \in {"dict", "list"})
        => last.info.ret = last.arg

\* C10 as claimed: after the call returns or fails, in whatever way, every
\* dict and list reachable from actual holds the normalized values.
C10_Original == IsAssert => RewrittenInPlace

\* C10 amended: after the call returns or fails with an AssertionError (that
\* is, unless path resolution raised ValueError before the normalization),
\* _to_json_dumpable returned a dict or list argument itself and every dict
\* and list reachable from actual through dicts and lists holds the
\* normalized values.
C10_RewrittenInPlace ==
    Resolved => (SameObjectReturned /\ RewrittenInPlace)

\* a dict that held a decimal and a list holds a float and a list after a
\* failed comparison
C10_Witness ==
    /\ Resolved /\ last.exc = "AssertionError"
    /\ IsRef(last.arg)
    /\ last.heap_before[last.arg.a].k = "dict"
    /\ last.heap_before[last.arg.a].items # <<>>
    /\ last.heap_before[last.arg.a].items[1] = ADecimal
    /\ heap[actual.a].items[1] = [t |-> "float", v |-> "1.5"]

(***************************************************************************)
(* Properties of the normalization                                         *)
(***************************************************************************)
\* no decimal, date-time, date, byte string or tuple anywhere in tree t
RECURSIVE NoRawValue(_)
NoRawValue(t) ==
    IF IsContainerKind(t.t)
    THEN t.t # "tuple" /\ \A i \in 1..Len(t.items) : NoRawValue(t.items[i])
    ELSE t.t \notin RawTypes

\* tree r is tree o with every leaf replaced as the table says and every
\* tuple made a list: same lengths, same order, same keys
RECURSIVE ReplacedPerTable(_, _)
ReplacedPerTable(o, r) ==
    CASE o.t = "Decimal"  -> r = [t |-> "float", v |-> "1.5"] /\ o.v = "1.50"
      [] o.t = "datetime" -> /\ r.t = "str"
                             /\ Len(r.v) = 26
                             /\ r.v = "2020-01-02 03:04:05.000006"
                             /\ <<o.y, o.mo, o.d, o.h, o.mi, o.s, o.us>>
                                = <<2020, 1, 2, 3, 4, 5, 6>>
      [] o.t = "date"     -> /\ r = [t |-> "str", v |-> "2020-01-02"]
                             /\ <<o.y, o.mo, o.d>> = <<2020, 1, 2>>
      [] o.t = "bytes"    -> r = [t |-> "str", v |-> o.v]
      [] IsContainerKind(o.t) ->
            /\ r.t = (IF o.t = "tuple" THEN "list" ELSE o.t)
            /\ r.keys = o.keys
            /\ Len(r.items) = Len(o.items)
            /\ \A i \in 1..Len(o.items) : ReplacedPerTable(o.items[i], r.items[i])
      [] OTHER -> r = o

\* C6: normalizing an already normalized value returns a value equal to it,
\* and so the same JSON text.
C6_Idempotent ==
    (last.op = "_to_json_dumpable" /\ last.n >= 2) =>
        /\ Val(heap, actual) = last.before
        /\ ActualJson(heap, actual) = Dumps(last.before, 0) \o "\n"

\* a tuple with a decimal and a dict has been normalized twice
C6_Witness ==
    /\ last.op = "_to_json_dumpable" /\ last.n = 2
    /\ last.orig = Container("tuple", <<[t |-> "Decimal", v |-> "1.50"],
                                        Container("dict", <<[t |-> "bytes", v |-> "ab"]>>)>>)
    /\ Val(heap, actual) # last.orig

\* C8: the result of normalizing a value holds no decimal, date-time, date,
\* byte string or tuple at any depth; each such leaf is replaced as the table
\* says (a date-time by the long form), and lengths, order and keys are kept.
C8_RecursesIntoEveryLevel ==
    (last.op = "_to_json_dumpable" /\ last.n = 1) =>
        /\ NoRawValue(Val(heap, actual))
        /\ ReplacedPerTable(last.orig, Val(heap, actual))

\* a date-time in a tuple in a list in a dict has been normalized
C8_Witness ==
    /\ last.op = "_to_json_dumpable" /\ last.n = 1
    /\ last.orig.t = "dict" /\ Len(last.orig.items) = 1
    /\ last.orig.items[1].t = "list" /\ Len(last.orig.items[1].items) = 1
    /\ last.orig.items[1].items[1].t = "tuple"
    /\ Len(last.orig.items[1].items[1].items) = 1
    /\ last.orig.items[1].items[1].items[1].t = "datetime"
    /\ Val(heap, actual).items[1].items[1].items[1]
       = [t |-> "str", v |-> "2020-01-02 03:04:05.000006"]

(***************************************************************************)
(* SpecPath: path resolution for test classes anywhere below the root      *)
(***************************************************************************)
MaxDepth == 3

DirNames == {"app", "tests", "testsuite", "unit"}

FileNames == {"test_foo.py", "tests.py"}

\* the directories of at most n segments below the root
RECURSIVE DirsBelow(_)
DirsBelow(n) ==
    IF n = 0 THEN {ROOT_DIR}
    ELSE DirsBelow(n - 1) \cup { d \o "/" \o x : d \in DirsBelow(n - 1), x \in DirNames }

CallerFiles == { d \o "/" \o name : d \in DirsBelow(MaxDepth), name \in FileNames }

InitPath ==
    /\ clsfile \in CallerFiles
    /\ fixture_dir = ""
    /\ host_tools = {}
    /\ files = NoFiles
    /\ dirs = {}
    /\ heap = <<>>
    /\ actual = Leaf("NoneType", "None")
    /\ calls = 0
    /\ procs = <<>>
    /\ last = [op |-> "none", exc |-> None]

\* cls.get_test_fixtures_dir()
GetTestFixturesDir ==
    /\ \E cf \in {clsfile}, fd \in {fixture_dir} :
       \E r \in {get_test_fixtures_dir(fd, cf)} :
          /\ fixture_dir' = r.cache
          /\ last' = [op |-> "get_test_fixtures_dir", exc |-> r.exc, ret |-> r.ret]
    /\ UNCHANGED <<clsfile, host_tools, files, dirs, heap, actual, calls, procs>>

\* the path resolution of an assertion made by test_a: directly from the
\* class's file, or from a base class's file given as calling_filename
ResolveSnapshotPath ==
    /\ \E cf \in {clsfile}, fd \in {fixture_dir} :
       \E caller \in {cf, BASE} :
       \E cfn \in (IF caller = cf THEN {"", cf} ELSE {caller}) :
       \E r \in {ResolvePath(cf, fd, <<Frame(caller, "test_a"), RUNNER>>, cfn)} :
          /\ fixture_dir' = r.cache
          /\ last' = [op |-> "resolve", exc |-> r.exc, caller |-> caller,
                      calling_filename |-> cfn, method_name |-> r.method_name,
                      sub_dir |-> r.sub_dir, filename_noext |-> r.filename_noext,
                      resultset_filename |-> r.resultset_filename]
    /\ UNCHANGED <<clsfile, host_tools, files, dirs, heap, actual, calls, procs>>

NextPath == GetTestFixturesDir \/ ResolveSnapshotPath

SpecPath == InitPath /\ [][NextPath]_vars

(***************************************************************************)
(* Properties of the path resolution                                       *)
(***************************************************************************)
\* the directory segments of the absolute path f
DirSegments(f) == Segments(Dirname(f))

\* the position of the first directory segment named tests, 0 for none
FirstTests(ds) ==
    IF \E i \in 1..Len(ds) : ds[i] = "tests"
    THEN CHOOSE i \in 1..Len(ds) : ds[i] = "tests" /\ \A j \in 1..(i - 1) : ds[j] # "tests"
    ELSE 0

HasTestsDir(f) == FirstTests(DirSegments(f)) > 0

\* <path up to the tests segment>/tests/fixtures
ClaimedFixturesDir(f) ==
    LET ds == DirSegments(f)
    IN  "/" \o Join(SubSeq(ds, 1, FirstTests(ds)) \o <<"fixtures">>, "/")

\* <root>/<prefix>/tests/fixtures/resultsets/<d1>/.../<dn>/<name>/<m>.json
\* for the caller file <root>/<prefix>/tests/<d1>/.../<dn>/<name>.py
ClaimedSnapshotPath(f, m) ==
    LET ds   == DirSegments(f)
        i    == FirstTests(ds)
        file == Basename(f)
        name == Slice(file, 0, Len(file) - Len(".py"))
    IN  "/" \o Join(SubSeq(ds, 1, i) \o <<"fixtures", "resultsets">>
                    \o SubSeq(ds, i + 1, Len(ds)) \o <<name, m \o ".json">>, "/")

\* C4 as claimed: for a caller file below a tests directory, given as the
\* class's file or through calling_filename, the snapshot path resolved is
\* <root>/<prefix>/tests/fixtures/resultsets/<d1>/.../<dn>/<name>/<m>.json
\* (paths compared as the filesystem resolves them).
C4_Original ==
    (last.op = "resolve" /\ HasTestsDir(last.caller)) =>
        /\ last.exc = None
        /\ Resolve(last.resultset_filename)
           = ClaimedSnapshotPath(last.caller, last.method_name)

\* C5 as claimed: the resolution fails with ValueError whenever the caller's
\* absolute path has no tests directory segment; when it does not fail the
\* fixtures directory is <path up to that segment>/tests/fixtures; and when
\* it fails no file or directory has been created.
C5_Original ==
    IsAssert =>
        /\ ~HasTestsDir(clsfile) => last.exc = "ValueError"
        /\ Resolved => fixture_dir = ClaimedFixturesDir(clsfile)
        /\ last.exc = "ValueError" =>
              (files = last.files_before /\ dirs = last.dirs_before)

(***************************************************************************)
(* SpecFrame: the frame _get_calframe selects, for every call stack        *)
(***************************************************************************)
MaxFrames == 3

\* the function a frame of file g runs, for a test class of file f
FunctionOf(g, f) ==
    IF g = f THEN "test_a"
    ELSE IF g = HELPER THEN "check_result"
    ELSE IF g = BASE THEN "test_base"
    ELSE "run"

FramesOf(f) == { Frame(g, FunctionOf(g, f)) : g \in {f, HELPER, BASE, RUNNER.filename} }

\* the stacks of at most n frames below the assertion, innermost first
RECURSIVE StacksUpTo(_, _)
StacksUpTo(f, n) ==
    IF n = 0 THEN { <<>> }
    ELSE StacksUpTo(f, n - 1)
         \cup { <<fr>> \o st : fr \in FramesOf(f),
                              st \in { x \in StacksUpTo(f, n - 1) : Len(x) = n - 1 } }

\* no calling_filename, a base class's file, and bare file names
CallingFilenames == {"", BASE, "test_foo.py", "testcase.py"}

\* a test class and an assertion about to be made: the frames below it and
\* the calling_filename argument
InitFrame ==
    /\ fixture_dir = ""
    /\ host_tools = {}
    /\ files = NoFiles
    /\ dirs = {}
    /\ heap = <<>>
    /\ actual = Leaf("NoneType", "None")
    /\ calls = 0
    /\ procs = <<>>
    /\ \E cf \in ClsFiles :
       \E callers \in StacksUpTo(cf, MaxFrames) \ { <<>> }, cfn \in CallingFilenames :
          /\ clsfile = cf
          /\ last = [op |-> "call", callers |-> callers, calling_filename |-> cfn,
                     frame |-> 0, exc |-> None, method_name |-> ""]

\* lines 184-185 of the assertion
GetCalframe ==
    /\ last.op = "call"
    /\ \E cf \in {clsfile}, callers \in {last.callers}, cfn \in {last.calling_filename} :
       \E fi \in {_get_calframe(OuterFrames(callers), cfn, cf)} :
          last' = [op |-> "_get_calframe", callers |-> callers,
                   calling_filename |-> cfn, frame |-> fi,
                   exc |-> IF fi = 0 THEN "ValueError" ELSE None,
                   method_name |-> IF fi = 0 THEN ""
                                   ELSE _get_calling_method_name(OuterFrames(callers)[fi])]
    /\ UNCHANGED <<clsfile, fixture_dir, host_tools, files, dirs, heap, actual,
                   calls, procs>>

NextFrame == GetCalframe

SpecFrame == InitFrame /\ [][NextFrame]_vars

\* the position of the immediate caller among the frames seen by
\* _get_calframe: after _get_calframe itself and assert_equals_resultset
ImmediateCaller == Len(OuterFrames(<<>>)) + 1

\* frame i of stack is of a file whose name contains test_filename
FrameMatches(stack, test_filename, i) == Find(stack[i].filename, test_filename) >= 0

\* the test file name of the last lookup: calling_filename when given, else
\* the class's file
TestFilename == IF last.calling_filename # "" THEN last.calling_filename ELSE clsfile

\* C7 as claimed: the frame selected is the immediate caller of the
\* assertion, never a frame of the helper itself and never one further out,
\* and the method name is the immediate caller's; otherwise ValueError.
C7_Original ==
    last.op = "_get_calframe" =>
        \/ last.exc = "ValueError"
        \/ /\ last.frame = ImmediateCaller
           /\ last.method_name = last.callers[1].function

\* C7 amended: the frame selected is the innermost frame, the helper's own
\* two frames included, of a file whose name contains the test file name
\* (calling_filename when given, else the class's file), and the method name
\* is that frame's; it is the immediate caller whenever the immediate
\* caller's file name contains the test file name and the helper's own does
\* not; ValueError is raised exactly when no frame's file name contains it.
C7_InnermostMatchingFrame ==
    last.op = "_get_calframe" =>
        \A stack \in {OuterFrames(last.callers)}, tf \in {TestFilename} :
            /\ (last.exc = "ValueError")
                  <=> (\A i \in 1..Len(stack) : ~FrameMatches(stack, tf, i))
            /\ last.exc = None =>
                  /\ last.frame \in 1..Len(stack)
                  /\ FrameMatches(stack, tf, last.frame)
                  /\ \A j \in 1..(last.frame - 1) : ~FrameMatches(stack, tf, j)
                  /\ last.method_name = stack[last.frame].function
            /\ (FrameMatches(stack, tf, ImmediateCaller) /\ ~FrameMatches(stack, tf, 1)) =>
                  /\ last.frame = ImmediateCaller
                  /\ last.method_name = last.callers[1].function

\* the assertion was called by a helper of another file, and the test
\* method that called the helper was selected
C7_Witness ==
    /\ last.op = "_get_calframe" /\ last.exc = None
    /\ last.callers = <<Frame(HELPER, "check_result"), Frame(clsfile, "test_a"), RUNNER>>
    /\ last.calling_filename = ""
    /\ last.frame = ImmediateCaller + 1
    /\ last.method_name = "test_a"

(***************************************************************************)
(* Concurrent test runs inside _check_file_can_be_created.  Each run does  *)
(* one system call per step: the os.path.exists of line 369, then inside   *)
(* os.makedirs the os.path.exists of each parent on the way up and one     *)
(* os.mkdir per directory on the way down.                                 *)
(***************************************************************************)
\* the number of directories above a snapshot file that may be missing
MaxMissing == 2

Runs == {"run1", "run2"}

\* an errno of os.mkdir other than EEXIST
Faults == {"EACCES"}

RaceBase == ROOT_DIR \o "/app/tests"

LevelName(i) == IF i = 1 THEN "fixtures" ELSE IF i = 2 THEN "resultsets" ELSE "unit"

\* the directory k levels below the tests directory
RECURSIVE RaceDirAt(_)
RaceDirAt(k) == IF k = 0 THEN RaceBase ELSE RaceDirAt(k - 1) \o "/" \o LevelName(k)

\* the directory of the snapshots of the runs
RaceDir == RaceDirAt(MaxMissing)

RaceFiles == {RaceDir \o "/test_a.json", RaceDir \o "/test_b.json"}

\* a run that has not entered _check_file_can_be_created yet
NewRun(filename) ==
    [pc |-> "start", filename |-> filename, stack |-> <<>>, exc |-> None,
     fault |-> None, eexist |-> FALSE, made |-> {}]

InitRace ==
    /\ clsfile = RaceBase \o "/unit/test_foo.py"
    /\ fixture_dir = ""
    /\ host_tools = {}
    /\ \E j \in 0..MaxMissing :
          /\ dirs = AncestorsOrSelf(RaceDirAt(j))
          /\ \/ files = NoFiles
             \/ /\ j = MaxMissing
                /\ files = WriteFile(NoFiles, RaceDir \o "/test_a.json", EmptySnapshot)
    /\ heap = <<>>
    /\ actual = Leaf("NoneType", "None")
    /\ calls = 0
    /\ \E fa \in RaceFiles, fb \in RaceFiles :
          procs = [r \in Runs |-> NewRun(IF r = "run1" THEN fa ELSE fb)]
    /\ last = [op |-> "none", exc |-> None]

\* what os.mkdir(name) reports on the filesystem (f, d)
MkdirErrno(f, d, name) ==
    IF Exists(f, d, name) THEN "EEXIST"
    ELSE IF Dirname(name) \notin d THEN "ENOENT"
    ELSE None

\* line 369: nothing is done when the file exists
CheckExists(r) ==
    /\ procs[r].pc = "start"
    /\ \E p \in {procs[r]} :
          procs' = [procs EXCEPT ![r] =
                       IF Exists(files, dirs, p.filename)
                       THEN [p EXCEPT !.pc = "done"]
                       ELSE [p EXCEPT !.pc = "makedirs",
                                      !.stack = <<Dirname(p.filename)>>]]
    /\ UNCHANGED <<clsfile, fixture_dir, host_tools, files, dirs, heap, actual,
                   calls, last>>

\* os.makedirs(name) of line 371 on its way up: it calls itself on the
\* parent of name when the parent is missing
MakedirsUp(r) ==
    /\ procs[r].pc = "makedirs"
    /\ \E p \in {procs[r]} :
       \E name \in {p.stack[Len(p.stack)]} :
          procs' = [procs EXCEPT ![r] =
                       IF ~Exists(files, dirs, Dirname(name))
                       THEN [p EXCEPT !.stack = Append(p.stack, Dirname(name))]
                       ELSE [p EXCEPT !.pc = "mkdir"]]
    /\ UNCHANGED <<clsfile, fixture_dir, host_tools, files, dirs, heap, actual,
                   calls, last>>

\* the run after os.mkdir of the innermost pending directory reported errno:
\* os.makedirs swallows the EEXIST of a parent and goes on with the child,
\* every other error leaves os.makedirs, and what leaves the outermost
\* os.makedirs goes through the except clause of lines 372-374
AfterMkdir(p, name, errno) ==
    LET inner == Len(p.stack) > 1
        q == [p EXCEPT !.made = IF errno = None THEN p.made \cup {name} ELSE p.made]
    IN  IF inner /\ errno \in {None, "EEXIST"}
        THEN [q EXCEPT !.stack = SubSeq(p.stack, 1, Len(p.stack) - 1)]
        ELSE [q EXCEPT !.pc = "done",
                       !.stack = <<>>,
                       !.exc = Reraised(errno),
                       !.eexist = (errno = "EEXIST")]

\* one os.mkdir of os.makedirs, on its way down
Mkdir(r) ==
    /\ procs[r].pc = "mkdir"
    /\ \E p \in {procs[r]} :
       \E name \in {p.stack[Len(p.stack)]} :
       \E errno \in {MkdirErrno(files, dirs, name)} :
          /\ dirs' = IF errno = None THEN dirs \cup {name} ELSE dirs
          /\ procs' = [procs EXCEPT ![r] = AfterMkdir(p, name, errno)]
    /\ UNCHANGED <<clsfile, fixture_dir, host_tools, files, heap, actual, calls, last>>

\* os.mkdir fails for a reason other than EEXIST
MkdirFails(r) ==
    /\ procs[r].pc = "mkdir"
    /\ \E p \in {procs[r]}, errno \in Faults :
          procs' = [procs EXCEPT ![r] =
                       AfterMkdir([p EXCEPT !.fault = errno],
                                  p.stack[Len(p.stack)], errno)]
    /\ UNCHANGED <<clsfile, fixture_dir, host_tools, files, dirs, heap, actual,
                   calls, last>>

NextRace ==
    \E r \in Runs : CheckExists(r) \/ MakedirsUp(r) \/ Mkdir(r) \/ MkdirFails(r)

SpecRace == InitRace /\ [][NextRace]_vars

(***************************************************************************)
(* Directory creation under concurrency (SpecRace)                         *)
(***************************************************************************)
\* C9: when test runs interleave _check_file_can_be_created for files of the
\* same missing directory, a run whose system calls met no error other than
\* "already exists" returns without raising and the directory exists when it
\* has returned; a run that met another filesystem error raises that error
\* unchanged.
C9_ConcurrentCreationTolerated ==
    \A r \in Runs :
        procs[r].pc = "done" =>
            /\ procs[r].fault = None =>
                  /\ procs[r].exc = None
                  /\ Dirname(procs[r].filename) \in dirs
            /\ procs[r].fault # None => procs[r].exc = procs[r].fault

\* both runs found the directory missing, one created it and the other was
\* told by os.mkdir that it exists already; both returned without raising
C9_Witness ==
    \E r \in Runs, o \in Runs :
        /\ r # o
        /\ procs[r].pc = "done" /\ procs[o].pc = "done"
        /\ procs[r].eexist /\ procs[r].exc = None /\ procs[r].fault = None
        /\ RaceDir \in procs[o].made /\ procs[o].exc = None
        /\ RaceDir \in dirs

====
